---------------------------- MODULE Spec2Model ----------------------------
(***************************************************************************)
(* Model of src/main.py: the Bilibili link-resolution pipeline of the      *)
(* plugin's message handler bilibili_parse.                                 *)
(*                                                                         *)
(* A Python str is a sequence of one-character strings, so that the        *)
(* regular expressions of the source are matched character by character.   *)
(* A missing attribute, None and the empty string are all << >>: the       *)
(* source tests each of them with "if v", which cannot tell them apart.    *)
(***************************************************************************)
EXTENDS Integers, Sequences, FiniteSets

(***************************************************************************)
(* Characters and the character classes of the patterns.                   *)
(***************************************************************************)
UpperCase == <<"A","B","C","D","E","F","G","H","I","J","K","L","M",
               "N","O","P","Q","R","S","T","U","V","W","X","Y","Z">>
LowerCase == <<"a","b","c","d","e","f","g","h","i","j","k","l","m",
               "n","o","p","q","r","s","t","u","v","w","x","y","z">>
Digit == {"0","1","2","3","4","5","6","7","8","9"}
Alnum == Digit \cup {UpperCase[i] : i \in 1..26} \cup {LowerCase[i] : i \in 1..26}
TokenChar == Alnum \cup {"_", "-"}
Backslash == "\\"

\* str.lower() on one character
LowerChar(c) ==
    IF \E i \in 1..26 : UpperCase[i] = c
    THEN LowerCase[CHOOSE i \in 1..26 : UpperCase[i] = c]
    ELSE c

\* str.lower()
Lower(s) == [i \in 1..Len(s) |-> LowerChar(s[i])]

\* sub in s
Contains(s, sub) ==
    \E i \in 1..(Len(s) + 1) :
        i + Len(sub) - 1 <= Len(s) /\ SubSeq(s, i, i + Len(sub) - 1) = sub

\* s.startswith(pre)
StartsWith(s, pre) == Len(pre) <= Len(s) /\ SubSeq(s, 1, Len(pre)) = pre

\* " ".join(parts)
RECURSIVE Join(_)
Join(parts) ==
    IF parts = << >> THEN << >>
    ELSE IF Len(parts) = 1 THEN parts[1]
    ELSE parts[1] \o <<" ">> \o Join(Tail(parts))

\* s.replace(old, new), left to right, non-overlapping
RECURSIVE Replace(_, _, _)
Replace(s, old, new) ==
    IF s = << >> THEN << >>
    ELSE IF StartsWith(s, old)
         THEN new \o Replace(SubSeq(s, Len(old) + 1, Len(s)), old, new)
         ELSE <<s[1]>> \o Replace(Tail(s), old, new)

(***************************************************************************)
(* Regular-expression pieces.  A matcher takes a text and a position and   *)
(* gives the position just after the match, or 0 when there is none.       *)
(***************************************************************************)
NoMatch == [start |-> 0, end |-> 0]

\* the first element of ends that is not 0, 0 when all are: the alternatives
\* of a pattern are tried in order and the first that matches is taken
FirstNonZero(ends) ==
    LET I == {i \in 1..Len(ends) : ends[i] # 0}
    IN  IF I = {} THEN 0 ELSE ends[CHOOSE i \in I : \A j \in I : i <= j]

\* re.search: ends[p] is where the pattern matched at p ends; the leftmost
\* match is taken
Leftmost(ends) ==
    LET P == {p \in 1..Len(ends) : ends[p] # 0}
        s == CHOOSE p \in P : \A q \in P : p <= q
    IN  IF P = {} THEN NoMatch ELSE [start |-> s, end |-> ends[s]]

\* a literal at position p
LitAt(txt, p, lit) ==
    p + Len(lit) - 1 <= Len(txt) /\ SubSeq(txt, p, p + Len(lit) - 1) = lit

\* the end of the longest run of characters of S from p on (X* with X a class)
RunEnd(txt, p, S) ==
    CHOOSE e \in p..(Len(txt) + 1) :
        /\ \A k \in p..(e - 1) : txt[k] \in S
        /\ (e = Len(txt) + 1 \/ txt[e] \notin S)

\* $ : the end of the text, or just before a newline that ends it
AtEnd(txt, p) == p = Len(txt) + 1 \/ (p = Len(txt) /\ txt[p] = "\n")

\* BV[0-9A-Za-z]{10}
BvIdEnd(txt, p) ==
    IF /\ LitAt(txt, p, <<"B","V">>)
       /\ p + 11 <= Len(txt)
       /\ \A k \in (p + 2)..(p + 11) : txt[k] \in Alnum
    THEN p + 12 ELSE 0

\* [A-Za-z0-9_-]+
TokenEnd(txt, p) ==
    IF p <= Len(txt) /\ txt[p] \in TokenChar THEN RunEnd(txt, p, TokenChar) ELSE 0

\* (?:/|\?|$)
LinkTerminator(txt, p) ==
    IF p <= Len(txt) /\ txt[p] \in {"/", "?"} THEN p + 1
    ELSE IF AtEnd(txt, p) THEN p
    ELSE 0

\* (BV[0-9A-Za-z]{10}|av\d+)(?:/|\?|$) : av\d+ is greedy and gives digits back
\* until the terminator matches
LinkTerminatorAfter(txt, e) == IF e = 0 THEN 0 ELSE LinkTerminator(txt, e)

LinkAvId(txt, p) ==
    LET e == RunEnd(txt, p + 2, Digit)
        K == {k \in (p + 3)..e : LinkTerminator(txt, k) # 0}
    IN  IF LitAt(txt, p, <<"a","v">>) /\ K # {}
        THEN LinkTerminator(txt, CHOOSE k \in K : \A j \in K : j <= k)
        ELSE 0

LinkVideoId(txt, p) ==
    FirstNonZero(<<LinkTerminatorAfter(txt, BvIdEnd(txt, p)), LinkAvId(txt, p)>>)

\* (?:bilibili\.com/video/(...)(?:/|\?|$)|b23\.tv/[A-Za-z0-9_-]+|bili2233\.cn/[A-Za-z0-9_-]+)
LinkHost(txt, p) ==
    FirstNonZero(<<
        IF LitAt(txt, p, <<"b","i","l","i","b","i","l","i",".","c","o","m","/","v","i","d","e","o","/">>) THEN LinkVideoId(txt, p + 19) ELSE 0,
        IF LitAt(txt, p, <<"b","2","3",".","t","v","/">>) THEN TokenEnd(txt, p + 7) ELSE 0,
        IF LitAt(txt, p, <<"b","i","l","i","2","2","3","3",".","c","n","/">>) THEN TokenEnd(txt, p + 12) ELSE 0 >>)

\* (?:www\.)? followed by the rest: taken when present, given up when the rest fails
LinkWww(txt, p) ==
    LET starts == IF LitAt(txt, p, <<"w","w","w",".">>) THEN <<p + 4, p>> ELSE <<p>>
    IN  FirstNonZero([i \in DOMAIN starts |-> LinkHost(txt, starts[i])])

\* https?://
SchemeEnd(txt, p) ==
    IF LitAt(txt, p, <<"h","t","t","p","s",":","/","/">>) THEN p + 8
    ELSE IF LitAt(txt, p, <<"h","t","t","p",":","/","/">>) THEN p + 7
    ELSE 0

\* BILI_LINK_PATTERN matched at position p
BILI_LINK_PATTERN(txt, p) ==
    LET s      == SchemeEnd(txt, p)
        starts == IF s # 0 THEN <<s, p>> ELSE <<p>>
    IN  FirstNonZero([i \in DOMAIN starts |-> LinkWww(txt, starts[i])])

\* re.search(BILI_LINK_PATTERN, txt): the leftmost match
SearchLink(txt) == Leftmost([p \in 1..(Len(txt) + 1) |-> BILI_LINK_PATTERN(txt, p)])

\* m.group(0), << >> when m is None
Group0(txt, m) == IF m = NoMatch THEN << >> ELSE SubSeq(txt, m.start, m.end - 1)

(***************************************************************************)
(* CARD_ESCAPED_LINK_PATTERN.  The source writes it as a raw string with   *)
(* doubled backslashes, so the regular expression it denotes is            *)
(*   https:\\\\/\\\\/(?:www\\.)?(?:bilibili\.com\\\\/video\\\\/            *)
(*     (BV[0-9A-Za-z]{10}|av\\d+)(?:\\\\/|\\?|$)                            *)
(*     |b23\.tv\\\\/[A-Za-z0-9_-]+|bili2233\.cn\\\\/[A-Za-z0-9_-]+)         *)
(* in which \\\\/ is two backslash characters and a slash, www\\. is www,  *)
(* a backslash and any character but a newline, av\\d+ is av, a backslash  *)
(* and one or more letters d, and \\? is an optional backslash.            *)
(***************************************************************************)
EscSlash == <<Backslash, Backslash, "/">>

\* (?:\\\\/|\\?|$) : \\? also matches the empty string, so this never fails
CardTerminator(txt, p) ==
    IF LitAt(txt, p, EscSlash) THEN p + 3
    ELSE IF p <= Len(txt) /\ txt[p] = Backslash THEN p + 1
    ELSE p

\* (BV[0-9A-Za-z]{10}|av\\d+)(?:\\\\/|\\?|$)
CardTerminatorAfter(txt, e) == IF e = 0 THEN 0 ELSE CardTerminator(txt, e)

CardVideoId(txt, p) ==
    FirstNonZero(<<
        CardTerminatorAfter(txt, BvIdEnd(txt, p)),
        IF LitAt(txt, p, <<"a", "v", Backslash, "d">>)
        THEN CardTerminator(txt, RunEnd(txt, p + 3, {"d"})) ELSE 0 >>)

\* the alternatives after the optional www
CardVideoLit == <<"b","i","l","i","b","i","l","i",".","c","o","m">> \o EscSlash \o <<"v","i","d","e","o">> \o EscSlash
CardB23Lit == <<"b","2","3",".","t","v">> \o EscSlash
CardB2233Lit == <<"b","i","l","i","2","2","3","3",".","c","n">> \o EscSlash
CardHeadLit == <<"h","t","t","p","s",":">> \o EscSlash \o EscSlash

CardHost(txt, p) ==
    FirstNonZero(<<
        IF LitAt(txt, p, CardVideoLit)
        THEN CardVideoId(txt, p + Len(CardVideoLit)) ELSE 0,
        IF LitAt(txt, p, CardB23Lit) THEN TokenEnd(txt, p + Len(CardB23Lit)) ELSE 0,
        IF LitAt(txt, p, CardB2233Lit) THEN TokenEnd(txt, p + Len(CardB2233Lit)) ELSE 0 >>)

\* (?:www\\.)? followed by the rest
CardWww(txt, p) ==
    LET starts == IF /\ LitAt(txt, p, <<"w", "w", "w", Backslash>>)
                     /\ p + 4 <= Len(txt) /\ txt[p + 4] # "\n"
                  THEN <<p + 5, p>> ELSE <<p>>
    IN  FirstNonZero([i \in DOMAIN starts |-> CardHost(txt, starts[i])])

\* CARD_ESCAPED_LINK_PATTERN matched at position p
CARD_ESCAPED_LINK_PATTERN(txt, p) ==
    IF LitAt(txt, p, CardHeadLit) THEN CardWww(txt, p + Len(CardHeadLit)) ELSE 0

\* re.search(CARD_ESCAPED_LINK_PATTERN, txt)
SearchCard(txt) ==
    Leftmost([p \in 1..(Len(txt) + 1) |-> CARD_ESCAPED_LINK_PATTERN(txt, p)])

\* _unescape_card_url: first \\ becomes \, then \/ becomes /
_unescape_card_url(s) ==
    Replace(Replace(s, <<Backslash, Backslash>>, <<Backslash>>),
            <<Backslash, "/">>, <<"/">>)

(***************************************************************************)
(* BV_OR_AV_ID_PATTERN and the strict /video/ pattern of bilibili_parse.   *)
(***************************************************************************)
MinAvDigits == 5

\* av\d{5,} : greedy, nothing follows it in either pattern
AvIdEnd(txt, p) ==
    LET e == RunEnd(txt, p + 2, Digit)
    IN  IF LitAt(txt, p, <<"a","v">>) /\ e - (p + 2) >= MinAvDigits THEN e ELSE 0

\* BV_OR_AV_ID_PATTERN matched at position p
BV_OR_AV_ID_PATTERN(txt, p) == FirstNonZero(<<BvIdEnd(txt, p), AvIdEnd(txt, p)>>)

\* re.search(BV_OR_AV_ID_PATTERN, txt)
SearchId(txt) == Leftmost([p \in 1..(Len(txt) + 1) |-> BV_OR_AV_ID_PATTERN(txt, p)])

\* /video/(BV[0-9A-Za-z]{10}|av\d{5,}) matched at position p
StrictVideoPattern(txt, p) ==
    IF LitAt(txt, p, <<"/","v","i","d","e","o","/">>) THEN BV_OR_AV_ID_PATTERN(txt, p + 7) ELSE 0

\* re.search(r"/video/(BV[0-9A-Za-z]{10}|av\d{5,})", text)
SearchStrict(txt) == Leftmost([p \in 1..(Len(txt) + 1) |-> StrictVideoPattern(txt, p)])

\* a variant of Group1 that takes the whole match, m_bvid.group(0)
Group1Whole(txt, m) == Group0(txt, m)

\* m_bvid.group(1): the match without its leading /video/, << >> when m is None
Group1(txt, m) == IF m = NoMatch THEN << >> ELSE SubSeq(txt, m.start + 7, m.end - 1)

(***************************************************************************)
(* The incoming event.  message_obj.str is str(msg_obj); strRaises says    *)
(* that the object's __str__ raises; NonStr is an attribute value that is  *)
(* truthy and not a str (re.search and str.join raise TypeError on it).    *)
(***************************************************************************)
NonStr == <<"<non-str>">>
NoObj == [present |-> FALSE, message_str |-> << >>, type |-> << >>,
          str |-> << >>, strRaises |-> FALSE]

\* the tokens that keep a message from counting as a pure video message
PureVideoHints == {<<"b","i","l","i","b","i","l","i",".","c","o","m">>, <<"b","2","3",".","t","v">>, <<"b","i","l","i","2","2","3","3",".","c","n">>, <<" ","b","v">>}
\* the markers of a native video attachment
PureVideoMarkers == {<<"[","c","q",":","v","i","d","e","o">>, <<"t","y","p","e","=","\"","v","i","d","e","o","\"">>, <<"t","y","p","e","=","v","i","d","e","o">>, <<"\"","v","i","d","e","o","\"">>}

\* parts, as _is_pure_video_event collects them
PureVideoParts(ev) ==
    (IF ev.message_str # << >> THEN <<ev.message_str>> ELSE << >>)
    \o (IF ev.raw_message # << >> THEN <<ev.raw_message>> ELSE << >>)
    \o (IF ev.message_obj.present THEN <<ev.message_obj.str>> ELSE << >>)

\* _is_pure_video_event, for an event whose str() does not raise
_is_pure_video_event(ev) ==
    LET s == Lower(Join(PureVideoParts(ev)))
        hinted == \E k \in PureVideoHints : Contains(s, k)
    IN  IF ev.message_obj.present /\ Lower(ev.message_obj.type) = <<"v","i","d","e","o">> /\ ~hinted
        THEN TRUE
        ELSE IF hinted THEN FALSE
        ELSE \E k \in PureVideoMarkers : Contains(s, k)

\* candidates_text, as _extract_bili_url_from_event collects it
Candidates(ev) ==
    (IF ev.message_str # << >> THEN <<ev.message_str>> ELSE << >>)
    \o (IF ev.message_obj.present /\ ev.message_obj.message_str # << >>
        THEN <<ev.message_obj.message_str>> ELSE << >>)
    \o (IF ev.message_obj.present THEN <<ev.message_obj.str>> ELSE << >>)

\* the first element of a sequence of results that is not None (<< >>)
FirstFound(results) ==
    LET I == {i \in 1..Len(results) : results[i] # << >>}
    IN  IF I = {} THEN << >> ELSE results[CHOOSE i \in I : \A j \in I : i <= j]

\* the first loop calls re.search on the candidates in order and returns at
\* the first match: a NonStr candidate raises unless an earlier one matched
ExtractRaises(ev) ==
    LET c == Candidates(ev)
    IN  \E i \in 1..Len(c) :
            c[i] = NonStr /\ \A j \in 1..(i - 1) : SearchLink(c[j]) = NoMatch

\* a variant of WithScheme that puts https:// before every url
WithSchemeAlways(url) == <<"h","t","t","p","s",":","/","/">> \o url

\* if not url.startswith("http"): url = "https://" + url
WithScheme(url) == IF StartsWith(url, <<"h","t","t","p">>) THEN url ELSE <<"h","t","t","p","s",":","/","/">> \o url

\* the same on the result of a search that may have failed
WithSchemeIfFound(url) == IF url = << >> THEN << >> ELSE WithScheme(url)

\* the scheme normalisation after unescaping
CardScheme(url) ==
    IF url = << >> THEN << >>
    ELSE WithScheme(IF StartsWith(url, <<"/","/">>) THEN <<"h","t","t","p","s",":">> \o url ELSE url)

\* a variant of FallbackHints with the site names only
FallbackHintsSiteOnly ==
    {<<"b","i","l","i","b","i","l","i">>, <<"b","2","3",".","t","v">>, <<"b","i","l","i","2","2","3","3",".","c","n">>, <<"哔","哩">>, <<"b","站">>}

\* the tokens that allow the bare-id fallback
FallbackHints ==
    {<<"b","i","l","i","b","i","l","i">>, <<"b","2","3",".","t","v">>, <<"b","i","l","i","2","2","3","3",".","c","n">>, <<"哔","哩">>, <<"b","站">>, <<" ","b","v">>}

\* allow_fallback
AllowFallback(c) == \E k \in FallbackHints : Contains(Lower(Join(c)), k)

VideoPage == <<"h","t","t","p","s",":","/","/","w","w","w",".","b","i","l","i","b","i","l","i",".","c","o","m","/","v","i","d","e","o","/">>

\* the first loop on one candidate: the matched link with a scheme
DirectUrl(txt) == WithSchemeIfFound(Group0(txt, SearchLink(txt)))

\* the second loop on one candidate: the escaped link, unescaped, with a scheme
CardUrl(txt) == CardScheme(_unescape_card_url(Group0(txt, SearchCard(txt))))

\* the fallback on one candidate: the page of the first bare identifier
PageOf(id) == IF id = << >> THEN << >> ELSE VideoPage \o id
FallbackUrl(txt) == PageOf(Group0(txt, SearchId(txt)))

\* the fallback loop, entered only when allow_fallback holds
Fallback(c) ==
    IF AllowFallback(c)
    THEN FirstFound([i \in 1..Len(c) |-> FallbackUrl(c[i])])
    ELSE << >>

\* _extract_bili_url_from_event on its candidates: each loop returns at the
\* first candidate that matches, and the loops run in this order
ExtractFrom(c) ==
    FirstFound(<<FirstFound([i \in 1..Len(c) |-> DirectUrl(c[i])]),
                 FirstFound([i \in 1..Len(c) |-> CardUrl(c[i])]),
                 Fallback(c)>>)

\* _extract_bili_url_from_event, for an event on which it does not raise;
\* << >> is None
_extract_bili_url_from_event(ev) == ExtractFrom(Candidates(ev))

(***************************************************************************)
(* bilibili_parse after the extraction: short-link expansion, identifier   *)
(* canonicalisation, the metadata lookup and the replies.                  *)
(***************************************************************************)
ShortDomains == {<<"b","2","3",".","t","v">>, <<"b","i","l","i","2","2","3","3",".","c","n">>}

\* any(d in matched_url for d in ("b23.tv", "bili2233.cn"))
IsShortLink(url) == \E d \in ShortDomains : Contains(url, d)

\* a variant of _expand_url that takes a status other than 200 for a failure
_expand_url_RaiseForStatus(url, o) ==
    IF o.kind = "error" \/ o.status # 200 THEN WithScheme(url) ELSE o.final

\* _expand_url under the outcome o of its one GET: an exception (timeout, DNS,
\* connection) gives back the url it requested, any response str(resp.url);
\* the response's status is never looked at
_expand_url(url, o) ==
    IF o.kind = "error" THEN WithScheme(url) ELSE o.final

\* the identifier bilibili_parse takes from text, << >> when it finds none
Canonicalize(text) ==
    FirstFound(<<Group1(text, SearchStrict(text)), Group0(text, SearchId(text))>>)

\* a variant of NoIdReplies that tells the chat the link is not supported
NoIdRepliesUnsupported(r) ==
    Append(r, [kind |-> "plain", body |-> <<"unsupported link type">>])

\* the replies after no identifier was found: a warning is logged, then return
NoIdReplies(r) == r

AcceptQn == 80

\* The texts of the replies.  The source's literals are in Chinese; each is
\* named here and stands for the literal in the comment beside it.
MsgApiFailed     == "API request failed"           \* "API 请求失败"
MsgParseFailed   == "parse failed"                 \* "解析失败"
MsgUnknownTitle  == "unknown title"                \* "未知标题"
MsgFailurePrefix == "parse of the video failed: "  \* "解析B站视频失败："
MsgInternalError == "internal error while parsing the video"  \* "解析B站视频时发生内部错误。"
MsgCaptionPrefix == "title: "                      \* "🎬 标题: "

JsonNull == "<null>"
\* f"{msg}"
Str(v) == IF v = JsonNull THEN "None" ELSE v

\* data.get(key, default) on a response that is a dict
Get(d, key, default) == IF key \in d.keys THEN d[key] ELSE default

\* "not data.get('data')": the key is missing, or its value is empty
NoData(d) == "data" \notin d.keys \/ d.data = "empty"

\* a variant of FailureMsg that never reads the msg of the response
FailureMsgDefault(r) == MsgParseFailed

\* data.get("msg", "解析失败")
FailureMsg(r) == Get(r, "msg", MsgParseFailed)

\* get_video_info on the value _http_get_json returned: None after an
\* exception (kind "error"), a falsy JSON value, a JSON value that is not an
\* object, or an object.  exc names the exception it raises, "none" if none.
get_video_info(r) ==
    LET fail(m) == [exc |-> "none", code |-> -1, msg |-> m, title |-> "",
                    video_url |-> "", pic |-> ""]
        raise(e) == [exc |-> e, code |-> -1, msg |-> "", title |-> "",
                     video_url |-> "", pic |-> ""]
    IN  IF r.kind \in {"error", "falsy"} THEN fail(MsgApiFailed)
        ELSE IF r.kind = "nondict" THEN raise("AttributeError")
        ELSE IF "code" \notin r.keys \/ r.code # 0 \/ NoData(r)
             THEN fail(FailureMsg(r))
        ELSE IF r.data = "dict" THEN raise("KeyError")
        ELSE IF r.data = "strings" THEN raise("AttributeError")
        ELSE [exc |-> "none", code |-> 0, msg |-> "",
              title |-> Get(r, "title", MsgUnknownTitle),
              video_url |-> r.video_url,
              pic |-> Get(r, "imgurl", "")]

PlainResult(body) == [kind |-> "plain", body |-> body]
ChainResult(body) == [kind |-> "chain", body |-> body]

\* event.plain_result(f"解析B站视频失败：{msg}")
FailureReply(info) == PlainResult(<<MsgFailurePrefix, Str(info.msg)>>)

\* event.plain_result("解析B站视频时发生内部错误。")
InternalErrorReply == PlainResult(<<MsgInternalError>>)

\* a variant of OnException that logs and yields nothing
OnExceptionSilent(r) == r

\* the except clause of bilibili_parse: log, then yield the internal-error reply
OnException(r) == Append(r, InternalErrorReply)

\* [CQ:video,file=...,cover=...,title=...]
CqVideo(info) ==
    PlainResult(<<"[CQ:video,file=", info.video_url, ",cover=", info.pic,
                  ",title=", info.title, "]">>)

\* the message sent for the video: the component through chain_result, or the
\* CQ code when the event has no chain_result, the import fails or the
\* component raises
VideoReply(info, o) ==
    IF o = "component" THEN ChainResult(<<"Video", info.video_url>>)
    ELSE CqVideo(info)

SendOutcomes == {"component", "no_chain_result", "ImportError", "Exception"}

\* caption
Caption(info) == PlainResult(<<MsgCaptionPrefix, info.title, "\n">>)

(***************************************************************************)
(* The inputs: the messages the handler is run on, and what the network    *)
(* answers.                                                                *)
(***************************************************************************)
MaxAvDigits == 6

BvId == <<"B","V","1","7","x","4","1","1","w","7","K","C">>
AvDigitSource == <<"1","7","0","0","0","1","2","3","4","5","6","7">>
AvId(k) == <<"a","v">> \o SubSeq(AvDigitSource, 1, k)
AvLengths == {1} \cup ((MinAvDigits - 1)..MaxAvDigits)
VideoIds == {BvId} \cup {AvId(k) : k \in AvLengths}

Schemes == {<< >>, <<"h","t","t","p",":","/","/">>, <<"h","t","t","p","s",":","/","/">>}
Wwws == {<< >>, <<"w","w","w",".">>}
VideoHost == <<"b","i","l","i","b","i","l","i",".","c","o","m","/","v","i","d","e","o","/">>
Prefixes == {<< >>, <<"快"," ">>}
Tails == {<< >>, <<"/">>, <<"?","p","=","2">>, <<" ","o","k">>}

\* a canonical video URL inside a plain text
VideoUrlTexts ==
    {p \o s \o w \o VideoHost \o id \o t :
        p \in Prefixes, s \in Schemes, w \in Wwws, id \in VideoIds, t \in Tails}

ShortLinks == {<<"h","t","t","p","s",":","/","/","b","2","3",".","t","v","/","v","g","9","x","O","F","G">>, <<"h","t","t","p","s",":","/","/","b","i","l","i","2","2","3","3",".","c","n","/","a","b","c","_","1","-","2">>}

ShortLinkTexts ==
    ShortLinks \cup {<<"b","2","3",".","t","v","/","v","g","9","x","O","F","G"," ","o","k">>, <<"h","t","t","p",":","/","/","b","2","3",".","t","v","/","B","V","1","7","x","4","1","1","w","7","K","C">>}

\* JSON string escaping of a URL: each / written as \/
Escape(u) == Replace(u, <<"/">>, <<Backslash, "/">>)
\* the same once more escaped, as the repr of a string shows it: \\/
EscapeTwice(u) == Replace(u, <<"/">>, <<Backslash, Backslash, "/">>)

CardUrls == ShortLinks \cup {<<"h","t","t","p","s",":","/","/","w","w","w",".","b","i","l","i","b","i","l","i",".","c","o","m","/","v","i","d","e","o","/","B","V","1","7","x","4","1","1","w","7","K","C">>}

CardTexts ==
    {<<"{","\"","j","u","m","p","U","r","l","\"",":","\"">> \o e \o <<"\"","}">> :
        e \in {Escape(u) : u \in CardUrls} \cup {EscapeTwice(u) : u \in CardUrls}}

BareIdTexts ==
    {BvId, <<"快"," ">> \o BvId, <<"b","站">> \o BvId, <<"哔","哩","哔","哩",":">> \o BvId,
     <<"x">> \o BvId \o <<"y","z">>, <<"c","o","d","e","c"," ","A","V","1"," ">> \o AvId(MinAvDigits),
     <<"b","i","l","i","b","i","l","i"," ">> \o AvId(MinAvDigits - 1) \o <<" ">> \o BvId,
     <<"B","站"," ">> \o AvId(MaxAvDigits) \o <<" ">> \o BvId}

OtherTexts == {<<"h","e","l","l","o">>, <<"[","C","Q",":","v","i","d","e","o",",","f","i","l","e","=","a",".","m","p","4","]">>}

PlainEvents ==
    {[message_str |-> t, raw_message |-> r, message_obj |-> NoObj] :
        t \in VideoUrlTexts \cup ShortLinkTexts \cup CardTexts \cup BareIdTexts
              \cup OtherTexts,
        r \in {<< >>}}

ObjStrs == CardTexts \cup {<<"V","i","d","e","o","(","f","i","l","e","=","a",".","m","p","4",")">>, <<"c","a","r","d"," ">> \o BvId, BvId}

ObjEvents ==
    {[message_str |-> t, raw_message |-> t,
      message_obj |-> [present |-> TRUE, message_str |-> m, type |-> ty,
                       str |-> st, strRaises |-> FALSE]] :
        t \in {<< >>, <<"h","e","l","l","o">>, BvId},
        m \in {<< >>, NonStr, <<"h","t","t","p","s",":","/","/","b","2","3",".","t","v","/","v","g","9","x","O","F","G">>},
        ty \in {<<"V","i","d","e","o">>, <<"j","s","o","n">>},
        st \in ObjStrs}
    \cup
    {[message_str |-> <<"h","e","l","l","o">>, raw_message |-> << >>,
      message_obj |-> [present |-> TRUE, message_str |-> << >>, type |-> <<"j","s","o","n">>,
                       str |-> << >>, strRaises |-> TRUE]]}

Events == PlainEvents \cup ObjEvents

ExpandTargets ==
    {<<"h","t","t","p","s",":","/","/","w","w","w",".","b","i","l","i","b","i","l","i",".","c","o","m","/","v","i","d","e","o","/","B","V","0","1","2","3","4","5","6","7","8","9","/","?","s","h","a","r","e","=","1">>,
     <<"h","t","t","p","s",":","/","/","w","w","w",".","b","i","l","i","b","i","l","i",".","c","o","m","/","v","i","d","e","o","/","a","v","1","0","6">>,
     <<"h","t","t","p","s",":","/","/","m",".","b","i","l","i","b","i","l","i",".","c","o","m","/","p","l","a","y","?","b","v","i","d","=","B","V","0","1","2","3","4","5","6","7","8","9">>,
     <<"h","t","t","p","s",":","/","/","l","i","v","e",".","b","i","l","i","b","i","l","i",".","c","o","m","/","7","7","3","4","2","0","0">>}

\* what the GET of _expand_url may end in
ExpandOutcomes ==
    {[kind |-> "error", status |-> 0, final |-> << >>]}
    \cup {[kind |-> "response", status |-> st, final |-> u] :
            st \in {200, 404}, u \in ExpandTargets}

ApiBase == [kind |-> "dict", keys |-> {}, code |-> 0, msg |-> "", data |-> "empty",
            title |-> "", imgurl |-> "", video_url |-> ""]

\* what _http_get_json may hand to get_video_info
ApiResponses ==
    {[ApiBase EXCEPT !.kind = "error"],
     [ApiBase EXCEPT !.kind = "falsy"],
     [ApiBase EXCEPT !.kind = "nondict"],
     [ApiBase EXCEPT !.keys = {"code", "msg"}, !.code = -1, !.msg = "video removed"],
     [ApiBase EXCEPT !.keys = {"code"}, !.code = -1],
     [ApiBase EXCEPT !.keys = {"code", "msg", "data"}, !.code = 404, !.msg = JsonNull,
                     !.data = "items"],
     [ApiBase EXCEPT !.keys = {"code", "msg", "data"}, !.msg = "no data"],
     [ApiBase EXCEPT !.keys = {"code"}],
     [ApiBase EXCEPT !.keys = {"data"}, !.data = "items"],
     [ApiBase EXCEPT !.keys = {"code", "data", "title", "imgurl"}, !.data = "items",
                     !.title = "a title", !.imgurl = "http://i/cover.jpg",
                     !.video_url = "http://v/video.mp4"],
     [ApiBase EXCEPT !.keys = {"code", "data"}, !.data = "items"],
     [ApiBase EXCEPT !.keys = {"code", "data"}, !.data = "dict"],
     [ApiBase EXCEPT !.keys = {"code", "data"}, !.data = "strings"]}

(***************************************************************************)
(* The state of one run of bilibili_parse.                                 *)
(***************************************************************************)
VARIABLES
    event,          \* the message being handled
    pc,             \* where the handler is
    matched_url,    \* the extractor's result, << >> for None
    text,           \* the URL the identifier is taken from
    bvid,           \* the identifier, << >> when none
    info,           \* what get_video_info returned
    replies,        \* the results the handler yielded, in order
    requests,       \* the HTTP requests issued, in order
    calls,          \* the helpers called, in order
    error,          \* the exception that reached the except clause, "none" if none
    expandOutcome,  \* how the GET of _expand_url ended
    apiResponse     \* what _http_get_json returned

vars == <<event, pc, matched_url, text, bvid, info, replies, requests, calls,
          error, expandOutcome, apiResponse>>

NoInfo == [exc |-> "none", code |-> -1, msg |-> "", title |-> "", video_url |-> "",
           pic |-> ""]
NoOutcome == [kind |-> "none", status |-> 0, final |-> << >>]
NoResponse == [ApiBase EXCEPT !.kind = "none"]

Init ==
    /\ event \in Events
    /\ pc = "start"
    /\ matched_url = << >>
    /\ text = << >>
    /\ bvid = << >>
    /\ info = NoInfo
    /\ replies = << >>
    /\ requests = << >>
    /\ calls = << >>
    /\ error = "none"
    /\ expandOutcome = NoOutcome
    /\ apiResponse = NoResponse

\* an exception reaches the except clause of bilibili_parse
Raise(e) ==
    /\ error' = e
    /\ replies' = OnException(replies)
    /\ pc' = "done"

\* a variant of AfterPureCheck without the early return
AfterPureCheckNoReturn(pure) == "extract"

\* where the handler goes after the pure-video check
AfterPureCheck(pure) == IF pure THEN "done" ELSE "extract"

\* if self._is_pure_video_event(event): return
PureVideoCheck ==
    /\ pc = "start"
    /\ calls' = Append(calls, "_is_pure_video_event")
    /\ IF event.message_obj.present /\ event.message_obj.strRaises
       THEN Raise("Exception")
       ELSE /\ pc' = AfterPureCheck(_is_pure_video_event(event))
            /\ UNCHANGED <<replies, error>>
    /\ UNCHANGED <<event, matched_url, text, bvid, info, requests, expandOutcome,
                   apiResponse>>

\* matched_url = self._extract_bili_url_from_event(event), and the early return
Extract ==
    /\ pc = "extract"
    /\ calls' = Append(calls, "_extract_bili_url_from_event")
    /\ IF ExtractRaises(event)
       THEN /\ Raise("TypeError")
            /\ UNCHANGED <<matched_url, text>>
       ELSE /\ matched_url' = _extract_bili_url_from_event(event)
            /\ text' = matched_url'
            /\ pc' = IF matched_url' = << >> THEN "done"
                     ELSE IF IsShortLink(matched_url') THEN "expand"
                     ELSE "canonicalize"
            /\ UNCHANGED <<replies, error>>
    /\ UNCHANGED <<event, bvid, info, requests, expandOutcome, apiResponse>>

\* text = await self._expand_url(matched_url)
Expand ==
    /\ pc = "expand"
    /\ \E o \in ExpandOutcomes :
        /\ expandOutcome' = o
        /\ text' = _expand_url(matched_url, o)
    /\ calls' = Append(calls, "_expand_url")
    /\ requests' = Append(requests, [kind |-> "expand", arg |-> WithScheme(matched_url),
                                     accept |-> 0])
    /\ pc' = "canonicalize"
    /\ UNCHANGED <<event, matched_url, bvid, info, replies, error, apiResponse>>

\* the two searches for the identifier, and the return when both fail
Canonicalise ==
    /\ pc = "canonicalize"
    /\ bvid' = Canonicalize(text)
    /\ IF bvid' = << >>
       THEN /\ replies' = NoIdReplies(replies)
            /\ pc' = "done"
       ELSE /\ replies' = replies
            /\ pc' = "lookup"
    /\ UNCHANGED <<event, matched_url, text, info, requests, calls, error,
                   expandOutcome, apiResponse>>

\* info = await self.get_video_info(bvid, 80)
GetVideoInfo ==
    /\ pc = "lookup"
    /\ calls' = Append(calls, "get_video_info")
    /\ requests' = Append(requests, [kind |-> "api", arg |-> bvid, accept |-> AcceptQn])
    /\ \E r \in ApiResponses :
        /\ apiResponse' = r
        /\ info' = get_video_info(r)
    /\ IF info'.exc # "none"
       THEN Raise(info'.exc)
       ELSE /\ pc' = "reply"
            /\ UNCHANGED <<replies, error>>
    /\ UNCHANGED <<event, matched_url, text, bvid, expandOutcome>>

\* the failure branch: one reply, then return
ReplyFailure ==
    /\ pc = "reply"
    /\ info.code # 0
    /\ replies' = Append(replies, FailureReply(info))
    /\ pc' = "done"
    /\ UNCHANGED <<event, matched_url, text, bvid, info, requests, calls, error,
                   expandOutcome, apiResponse>>

\* the video message, by the component or by the CQ code
SendVideo ==
    /\ pc = "reply"
    /\ info.code = 0
    /\ \E o \in SendOutcomes : replies' = Append(replies, VideoReply(info, o))
    /\ pc' = "caption"
    /\ UNCHANGED <<event, matched_url, text, bvid, info, requests, calls, error,
                   expandOutcome, apiResponse>>

\* yield event.plain_result(caption)
SendCaption ==
    /\ pc = "caption"
    /\ replies' = Append(replies, Caption(info))
    /\ pc' = "done"
    /\ UNCHANGED <<event, matched_url, text, bvid, info, requests, calls, error,
                   expandOutcome, apiResponse>>

Next ==
    \/ PureVideoCheck
    \/ Extract
    \/ Expand
    \/ Canonicalise
    \/ GetVideoInfo
    \/ ReplyFailure
    \/ SendVideo
    \/ SendCaption

Spec == Init /\ [][Next]_vars

(***************************************************************************)
(* The claims.                                                             *)
(***************************************************************************)
Called(f) == \E i \in 1..Len(calls) : calls[i] = f
LastCall == IF calls = << >> THEN "" ELSE calls[Len(calls)]
ApiRequests == SelectSeq(requests, LAMBDA r : r.kind = "api")
ExpandRequests == SelectSeq(requests, LAMBDA r : r.kind = "expand")
\* the extractor has just returned, without raising
AfterExtract == LastCall = "_extract_bili_url_from_event" /\ error = "none"
\* the search for the identifier has run
Canonicalised ==
    matched_url # << >> /\ pc \in {"lookup", "reply", "caption", "done"}

\* 'BV' and 10 alphanumeric characters, or 'av' and digits
CanonicalShape(id) ==
    \/ /\ Len(id) = 12
       /\ id[1] = "B" /\ id[2] = "V"
       /\ \A k \in 3..12 : id[k] \in Alnum
    \/ /\ Len(id) >= 3
       /\ id[1] = "a" /\ id[2] = "v"
       /\ \A k \in 3..Len(id) : id[k] \in Digit

\* C1: every identifier handed to the metadata lookup is 'BV' and 10
\* alphanumeric characters or 'av' and digits, and when no identifier was
\* found no metadata request is issued at all.
C1_CanonicalIdOnly ==
    /\ \A i \in 1..Len(requests) :
          requests[i].kind = "api" => CanonicalShape(requests[i].arg)
    /\ bvid = << >> => ApiRequests = << >>

C1_Witness ==
    /\ expandOutcome.kind = "response"
    /\ Len(ApiRequests) = 1
    /\ ApiRequests[1].arg = <<"B","V","0","1","2","3","4","5","6","7","8","9">>

\* the extractor gave a URL and no identifier could be taken from it
NoIdentifier == pc = "done" /\ error = "none" /\ matched_url # << >> /\ bvid = << >>

\* C2, as claimed: when the extractor returned a URL and no identifier can be
\* extracted from it, the handler emits an 'unsupported link type' reply.
C2_UnsupportedLinkReply == NoIdentifier => Len(replies) >= 1

\* C2, amended: in that case the handler ends silently, with no reply and no
\* metadata request.
C2_SilentAbort == NoIdentifier => replies = << >> /\ ApiRequests = << >>

C2_Witness ==
    /\ NoIdentifier
    /\ expandOutcome.kind = "error"
    /\ text = <<"h","t","t","p","s",":","/","/","b","2","3",".","t","v","/","v","g","9","x","O","F","G">>

\* a metadata outcome that is a failure: a transport failure, a non-zero
\* code, or missing or empty data
MetadataFailed(r) ==
    \/ r.kind \in {"error", "falsy"}
    \/ /\ r.kind = "dict"
       /\ \/ "code" \in r.keys /\ r.code # 0
          \/ "data" \notin r.keys
          \/ r.data = "empty"

\* C3: after a failed metadata outcome the handler has emitted exactly one
\* reply, the failure prefix followed by the response's msg when it has one
\* and a generic default otherwise, and has issued exactly one metadata request.
C3_OneFailureReply ==
    pc = "done" /\ MetadataFailed(apiResponse) =>
        /\ Len(replies) = 1
        /\ replies[1].kind = "plain"
        /\ Len(replies[1].body) = 2
        /\ replies[1].body[1] = MsgFailurePrefix
        /\ IF apiResponse.kind = "dict" /\ "msg" \in apiResponse.keys
           THEN replies[1].body[2] =
                    (IF apiResponse.msg = JsonNull THEN "None" ELSE apiResponse.msg)
           ELSE replies[1].body[2] \in {MsgApiFailed, MsgParseFailed}
        /\ Len(ApiRequests) = 1
        /\ error = "none"

C3_Witness ==
    /\ pc = "done"
    /\ apiResponse.kind = "dict" /\ apiResponse.code = -1
    /\ apiResponse.msg = "video removed"
    /\ replies = <<[kind |-> "plain", body |-> <<MsgFailurePrefix, "video removed">>]>>

C5_SilentNoOp ==
    /\ pc # "start" /\ ~event.message_obj.strRaises /\ _is_pure_video_event(event) =>
          /\ pc = "done" /\ error = "none"
          /\ replies = << >> /\ requests = << >>
          /\ calls = <<"_is_pure_video_event">>
    /\ AfterExtract /\ matched_url = << >> =>
          /\ pc = "done"
          /\ replies = << >> /\ requests = << >>

C5_Witness ==
    /\ pc = "done" /\ calls = <<"_is_pure_video_event">> /\ error = "none"
    /\ event.message_obj.present
    /\ event.message_obj.message_str = <<"h","t","t","p","s",":","/","/","b","2","3",".","t","v","/","v","g","9","x","O","F","G">>

C5_WitnessNoReference ==
    pc = "done" /\ AfterExtract /\ matched_url = << >> /\ event.message_str = <<"h","e","l","l","o">>

\* the site-name hints: domain fragments and short names
SiteHints == {<<"b","i","l","i","b","i","l","i">>, <<"b","2","3",".","t","v">>, <<"b","i","l","i","2","2","3","3",".","c","n">>, <<"哔","哩">>, <<"b","站">>}
HasSiteHint(c) == \E h \in SiteHints : \E i \in 1..Len(c) : Contains(Lower(c[i]), h)

\* the bare identifiers of the messages: BV ones, and av ones of 5 digits or more
BareIds == {BvId} \cup {AvId(k) : k \in MinAvDigits..(MaxAvDigits + 1)}
\* id stands at p in txt, and is not the beginning of a longer av identifier
BareIdAt(txt, p, id) ==
    /\ LitAt(txt, p, id)
    /\ id[1] = "a" => ~(p + Len(id) <= Len(txt) /\ txt[p + Len(id)] \in Digit)
BareIdsIn(txt) == {o \in (1..Len(txt)) \X BareIds : BareIdAt(txt, o[1], o[2])}
\* the first bare identifier of the first candidate text that holds one
FirstBareId(c) ==
    LET i == CHOOSE j \in 1..Len(c) :
                 BareIdsIn(c[j]) # {} /\ \A k \in 1..(j - 1) : BareIdsIn(c[k]) = {}
        O == BareIdsIn(c[i])
    IN  (CHOOSE o \in O : \A o2 \in O : o[1] <= o2[1])[2]

\* no direct and no escaped URL matches, and a bare BV token is there
BareTokenOnly ==
    LET c == Candidates(event)
    IN  /\ AfterExtract
        /\ \A i \in 1..Len(c) : SearchLink(c[i]) = NoMatch /\ SearchCard(c[i]) = NoMatch
        /\ \E i \in 1..Len(c) : Contains(c[i], BvId)

\* C6, as claimed: with a bare BV token and no URL, the extractor returns the
\* page of the token when a site-name hint is in the message, and no
\* reference when none is.
C6_HintGatesFallback ==
    BareTokenOnly =>
        IF HasSiteHint(Candidates(event))
        THEN matched_url = <<"h","t","t","p","s",":","/","/","w","w","w",".","b","i","l","i","b","i","l","i",".","c","o","m","/","v","i","d","e","o","/">> \o BvId
        ELSE matched_url = << >>

\* C6, amended: the fallback is also allowed by ' bv' (a space and then bv, in
\* any case) in the candidate texts joined by spaces, which the token itself
\* gives after a space or at the start of a later candidate text; and the page
\* returned is that of the first bare identifier (BV and 10 alphanumerics, or
\* av and 5 digits or more) of the first candidate text that holds one.
C6_HintOrSpaceBvGatesFallback ==
    BareTokenOnly =>
        IF \/ HasSiteHint(Candidates(event))
           \/ Contains(Lower(Join(Candidates(event))), <<" ","b","v">>)
        THEN matched_url =
                 <<"h","t","t","p","s",":","/","/","w","w","w",".","b","i","l","i","b","i","l","i",".","c","o","m","/","v","i","d","e","o","/">> \o FirstBareId(Candidates(event))
        ELSE matched_url = << >>

C6_Witness ==
    /\ BareTokenOnly
    /\ ~HasSiteHint(Candidates(event))
    /\ matched_url = <<"h","t","t","p","s",":","/","/","w","w","w",".","b","i","l","i","b","i","l","i",".","c","o","m","/","v","i","d","e","o","/","B","V","1","7","x","4","1","1","w","7","K","C">>

C6_WitnessNoReference ==
    BareTokenOnly /\ matched_url = << >> /\ event.message_str = <<"x">> \o BvId \o <<"y","z">>

\* the well-formed canonical video URLs
CanonicalUrls == [s : Schemes, w : Wwws, id : VideoIds]
UrlText(u) == u.s \o u.w \o <<"b","i","l","i","b","i","l","i",".","c","o","m","/","v","i","d","e","o","/">> \o u.id
\* u stands at p in txt, and its identifier does not go on after it
UrlAt(txt, p, u) ==
    /\ LitAt(txt, p, UrlText(u))
    /\ ~(p + Len(UrlText(u)) <= Len(txt) /\ txt[p + Len(UrlText(u))] \in Alnum)
UrlsIn(txt) == {o \in (1..Len(txt)) \X CanonicalUrls : UrlAt(txt, o[1], o[2])}
\* the leftmost of them
FirstOf(O) == CHOOSE o \in O : \A o2 \in O : o[1] <= o2[1]
\* that URL is followed by '/', by '?' or by nothing
Terminated(txt, o) ==
    LET q == o[1] + Len(UrlText(o[2]))
    IN  q = Len(txt) + 1 \/ txt[q] \in {"/", "?"}
TerminatedUrlsIn(txt) == {o \in UrlsIn(txt) : Terminated(txt, o)}
\* the '/' or '?' after it, if any
Terminator(txt, o) ==
    LET q == o[1] + Len(UrlText(o[2]))
    IN  IF q <= Len(txt) THEN <<txt[q]>> ELSE << >>

C8_EscapedShortLink ==
    \A u \in ShortLinks :
        /\ AfterExtract
        /\ ~event.message_obj.present
        /\ Contains(event.message_str, Escape(u))
        => matched_url = u

\* the identifiers a /video/ path segment may hold
SegmentIds == VideoIds \cup {<<"B","V","0","1","2","3","4","5","6","7","8","9">>, <<"a","v","1","0","6">>}
\* text holds the path segment /video/<id>
HasVideoSegment(txt, id) ==
    \E p \in 1..Len(txt) :
        /\ LitAt(txt, p, <<"/","v","i","d","e","o","/">> \o id)
        /\ id[1] = "a" => ~(p + 7 + Len(id) <= Len(txt) /\ txt[p + 7 + Len(id)] \in Digit)

\* C9: when the URL the identifier is taken from holds a path segment
\* /video/<ID>, with <ID> 'BV' and 10 alphanumerics or 'av' and one or more
\* digits, the identifier used for the lookup is exactly <ID>.
C9_StrictSegmentId ==
    \A id \in SegmentIds :
        Canonicalised /\ HasVideoSegment(text, id) =>
            /\ bvid = id
            /\ pc = "done" => Len(ApiRequests) = 1 /\ ApiRequests[1].arg = id

\* the order of the steps of the handler
Rank ==
    [p \in {"start", "extract", "expand", "canonicalize", "lookup", "reply", "caption",
            "done"} |->
        CASE p = "start" -> 0
          [] p = "extract" -> 1
          [] p = "expand" -> 2
          [] p = "canonicalize" -> 3
          [] p = "lookup" -> 4
          [] p = "reply" -> 5
          [] p = "caption" -> 6
          [] p = "done" -> 7]
\* the step the handler is at can be taken: the steps other than the reply
\* wait for nothing, and the reply has the result of the lookup to branch on
CanStep ==
    \/ pc \in {"start", "extract", "expand", "canonicalize", "lookup", "caption"}
    \/ pc = "reply" /\ info # NoInfo /\ info.exc = "none"

\* C10: an exception that reaches the except clause of bilibili_parse ends the
\* handler with the internal-error reply as its last reply and with nothing
\* raised to the host; and the handler comes to its end: it is never stuck at
\* a step, and each step brings it nearer to the end.
C10_InternalErrorReply ==
    /\ [](error # "none" =>
              /\ pc = "done"
              /\ replies # << >>
              /\ replies[Len(replies)] = [kind |-> "plain", body |-> <<MsgInternalError>>])
    /\ [](pc = "done" \/ CanStep)
    /\ [][Rank[pc'] > Rank[pc]]_vars

C10_Witness ==
    /\ error = "KeyError"
    /\ Called("get_video_info")
    /\ replies = <<[kind |-> "plain", body |-> <<MsgInternalError>>]>>

=============================================================================
